---------------------------- MODULE Spec2Model ----------------------------
(***************************************************************************)
(* Model of src/app.py: the Streamlit script that loads the 2025 school   *)
(* performance report, derives the scoring columns, filters by province   *)
(* and builds the two top-20 leaderboards.                                 *)
(*                                                                         *)
(* Floating point values are modelled as exact rationals extended with    *)
(* +inf, -inf and NaN, following the IEEE-754 rules pandas/numpy apply    *)
(* (x/0, NaN propagation, comparisons with NaN are false).  Rounding is   *)
(* not modelled.                                                           *)
(***************************************************************************)
EXTENDS Integers, Sequences, FiniteSets, TLC

VARIABLES
    file,            \* rows of "2025 SCHOOL PERFORMANCE REPORT.xlsx"
    tieRank,         \* order in which this build's quicksort leaves equal keys
    cache,           \* entry of st.cache_data for load_data()
    province,        \* selection of the sidebar multiselect
    df,              \* module-level df after feature engineering
    filtered,        \* df[df["Province"].isin(province)]
    top_projection,  \* projection leaderboard
    interventions,   \* intervention leaderboard
    prev             \* what the previous run of the script displayed

vars == <<file, tieRank, cache, province, df, filtered, top_projection,
          interventions, prev>>

-----------------------------------------------------------------------------
(* Bounds of the model *)

MaxRows == 3

BigRows == 21

(* head(20) *)
HeadN == 20

-----------------------------------------------------------------------------
(* float64 arithmetic: exact rationals plus inf and NaN *)

Abs(i) == IF i < 0 THEN -i ELSE i

RECURSIVE GCD(_, _)
GCD(a, b) == IF b = 0 THEN a ELSE GCD(b, a % b)

NaN == [k |-> "nan", n |-> 0, d |-> 1]

PosInf == [k |-> "inf", n |-> 1, d |-> 1]

NegInf == [k |-> "inf", n |-> -1, d |-> 1]

Rat(n, d) ==
    LET s == IF d < 0 THEN -1 ELSE 1
        g == GCD(Abs(n), Abs(d))
    IN  [k |-> "fin", n |-> (s * n) \div g, d |-> (s * d) \div g]

Num(i) == [k |-> "fin", n |-> i, d |-> 1]

IsNaN(x) == x.k = "nan"

IsFinite(x) == x.k = "fin"

Sgn(x) == IF x.n > 0 THEN 1 ELSE IF x.n < 0 THEN -1 ELSE 0

InfOf(s) == IF s > 0 THEN PosInf ELSE NegInf

FNeg(x) == IF IsNaN(x) THEN NaN ELSE [x EXCEPT !.n = -x.n]

FAdd(x, y) ==
    IF IsNaN(x) \/ IsNaN(y) THEN NaN
    ELSE IF x.k = "inf" /\ y.k = "inf" THEN (IF x.n = y.n THEN x ELSE NaN)
    ELSE IF x.k = "inf" THEN x
    ELSE IF y.k = "inf" THEN y
    ELSE Rat(x.n * y.d + y.n * x.d, x.d * y.d)

FSub(x, y) == FAdd(x, FNeg(y))

FMul(x, y) ==
    IF IsNaN(x) \/ IsNaN(y) THEN NaN
    ELSE IF x.k = "inf" \/ y.k = "inf"
         THEN (IF Sgn(x) * Sgn(y) = 0 THEN NaN ELSE InfOf(Sgn(x) * Sgn(y)))
    ELSE Rat(x.n * y.n, x.d * y.d)

FDiv(x, y) ==
    IF IsNaN(x) \/ IsNaN(y) THEN NaN
    ELSE IF x.k = "inf" THEN (IF y.k = "inf" THEN NaN
                              ELSE InfOf(IF Sgn(y) < 0 THEN -x.n ELSE x.n))
    ELSE IF y.k = "inf" THEN Num(0)
    ELSE IF y.n = 0 THEN (IF x.n = 0 THEN NaN ELSE InfOf(Sgn(x)))
    ELSE Rat(x.n * y.d, x.d * y.n)

FAbs(x) == IF IsNaN(x) THEN NaN ELSE [x EXCEPT !.n = Abs(x.n)]

FLt(x, y) ==
    /\ ~IsNaN(x)
    /\ ~IsNaN(y)
    /\ IF x.k = "inf" THEN x.n < 0 /\ y # x
       ELSE IF y.k = "inf" THEN y.n > 0
       ELSE x.n * y.d < y.n * x.d

FEq(x, y) == ~IsNaN(x) /\ ~IsNaN(y) /\ x = y

FLe(x, y) == FLt(x, y) \/ FEq(x, y)

FGe(x, y) == FLe(y, x)

FGt(x, y) == FLt(y, x)

(* A clip that forgets the upper bound: np.maximum(x, lo) *)
clip_lower_only(x, lo, hi) ==
    IF IsNaN(x) THEN NaN
    ELSE IF FLt(x, lo) THEN lo
    ELSE x

(* np.clip(x, lo, hi) = minimum(maximum(x, lo), hi); NaN propagates *)
clip(x, lo, hi) ==
    IF IsNaN(x) THEN NaN
    ELSE IF FLt(x, lo) THEN lo
    ELSE IF FGt(x, hi) THEN hi
    ELSE x

(* Series.fillna(v) *)
fillna(x, v) == IF IsNaN(x) THEN v ELSE x

-----------------------------------------------------------------------------
(* Spreadsheet cells *)

NA == "NA"

NumCell(v) == [t |-> "num", v |-> v]

StrCell == [t |-> "str", v |-> 0]

NumStrCell(v) == [t |-> "numstr", v |-> v]

NACell == [t |-> "na", v |-> 0]

(* pd.to_numeric(cell, errors="coerce") *)
to_numeric(c) == IF c.t \in {"num", "numstr"} THEN Num(c.v) ELSE NaN

(* pd.isna on a text cell *)
isna(s) == s = NA

-----------------------------------------------------------------------------
(* load_data *)

Coerce(f) ==
    [i \in 1..Len(f) |->
        [idx              |-> i,
         School_Name      |-> f[i].School_Name,
         Quintile         |-> to_numeric(f[i].Quintile),
         Total_Wrote      |-> to_numeric(f[i].Total_Wrote),
         Total_Achieved   |-> to_numeric(f[i].Total_Achieved),
         Percent_Achieved |-> to_numeric(f[i].Percent_Achieved),
         Province         |-> f[i].Province]]

DropnaKeeps(r) ==
    /\ ~isna(r.School_Name)
    /\ ~IsNaN(r.Percent_Achieved)
    /\ ~isna(r.Province)

dropna(rows) == SelectSeq(rows, DropnaKeeps)

load_data_body(f) == dropna(Coerce(f))

(* @st.cache_data: the body runs on a miss, a copy of the entry is returned on a hit *)
load_data(c, f) == IF c.valid THEN c.value ELSE load_data_body(f)

-----------------------------------------------------------------------------
(* Feature engineering *)

(* perf_band with strict comparisons: the thresholds fall in the lower band *)
perf_band_strict(x) ==
    IF FGt(x, Num(90)) THEN "Excellent"
    ELSE IF FGt(x, Num(75)) THEN "Good"
    ELSE IF FGt(x, Num(50)) THEN "Average"
    ELSE "Poor"

perf_band(x) ==
    IF FGe(x, Num(90)) THEN "Excellent"
    ELSE IF FGe(x, Num(75)) THEN "Good"
    ELSE IF FGe(x, Num(50)) THEN "Average"
    ELSE "Poor"

expected_band(q) ==
    IF FGe(q, Num(4)) THEN "Excellent"
    ELSE IF FEq(q, Num(3)) THEN "Good"
    ELSE "Average"

Efficiency_Score(r) == fillna(FDiv(r.Total_Achieved, r.Total_Wrote), Num(0))

Equity_Gap(r) == FSub(r.Percent_Achieved, FMul(r.Quintile, Num(15)))

Growth_Index(r) ==
    FAdd(FMul(r.Percent_Achieved, Rat(3, 5)),
         FMul(FMul(Efficiency_Score(r), Num(100)), Rat(2, 5)))

Stability_Index(r) == clip(FMul(Efficiency_Score(r), Num(100)), Num(0), Num(100))

(* risk_label with p <= 50 in the first test *)
risk_label_inclusive(p) ==
    IF FLe(p, Num(50)) THEN "High Risk"
    ELSE IF FLt(p, Num(70)) THEN "Medium Risk"
    ELSE "Low Risk"

risk_label(p) ==
    IF FLt(p, Num(50)) THEN "High Risk"
    ELSE IF FLt(p, Num(70)) THEN "Medium Risk"
    ELSE "Low Risk"

ProjectedRaw(r) ==
    FAdd(r.Percent_Achieved, FMul(FSub(Growth_Index(r), Num(70)), Rat(3, 20)))

Projected_Pass_Rate_2026(r) == clip(ProjectedRaw(r), Num(30), Num(100))

Intervention_Priority(r) ==
    FAdd(FAdd(FMul(FSub(Num(100), r.Percent_Achieved), Rat(1, 2)),
              FMul(FAbs(Equity_Gap(r)), Rat(3, 10))),
         FMul(FSub(Num(100), Stability_Index(r)), Rat(1, 5)))

Score(r) ==
    [idx                      |-> r.idx,
     School_Name              |-> r.School_Name,
     Quintile                 |-> r.Quintile,
     Total_Wrote              |-> r.Total_Wrote,
     Total_Achieved           |-> r.Total_Achieved,
     Percent_Achieved         |-> r.Percent_Achieved,
     Province                 |-> r.Province,
     Actual_Band              |-> perf_band(r.Percent_Achieved),
     Expected_Band            |-> expected_band(r.Quintile),
     Efficiency_Score         |-> Efficiency_Score(r),
     Equity_Gap               |-> Equity_Gap(r),
     Growth_Index             |-> Growth_Index(r),
     Stability_Index          |-> Stability_Index(r),
     Risk_Category            |-> risk_label(r.Percent_Achieved),
     Projected_Pass_Rate_2026 |-> Projected_Pass_Rate_2026(r),
     Intervention_Priority    |-> Intervention_Priority(r)]

FeatureEngineering(rows) == [i \in 1..Len(rows) |-> Score(rows[i])]

(* The rule chain with the pass_rate >= 60 rule tested first *)
investment_group_reordered(q, p) ==
    IF FGe(p, Num(60)) THEN "C"
    ELSE IF FLe(q, Num(2)) /\ FGe(p, Num(80)) THEN "A"
    ELSE IF FEq(q, Num(3)) /\ FGe(p, Num(75)) THEN "B"
    ELSE "D"

(* Investment group of the classifier (spec section 4.1); not in src/app.py *)
investment_group(q, p) ==
    IF FLe(q, Num(2)) /\ FGe(p, Num(80)) THEN "A"
    ELSE IF FEq(q, Num(3)) /\ FGe(p, Num(75)) THEN "B"
    ELSE IF FGe(p, Num(60)) THEN "C"
    ELSE "D"

-----------------------------------------------------------------------------
(* Sidebar filter and leaderboards *)

ProvinceOptions(rows) == {rows[i].Province : i \in 1..Len(rows)}

isin(rows, sel) ==
    LET Keep(r) == r.Province \in sel
    IN  SelectSeq(rows, Keep)

Reverse(s) == [i \in 1..Len(s) |-> s[Len(s) + 1 - i]]

(* A sort whose tie order differs between a cold and a warm run *)
TieBeforePerRun(a, b) ==
    IF cache.valid THEN tieRank[a] > tieRank[b] ELSE tieRank[a] < tieRank[b]

(* Order kind="quicksort" leaves two equal keys at positions a, b of the array *)
TieBefore(a, b) == tieRank[a] < tieRank[b]

(* ndarray.argsort(kind="quicksort") of column by, ascending *)
argsort(rows, by) ==
    LET n == Len(rows)
        Before(a, b) ==
            \/ FLt(rows[a][by], rows[b][by])
            \/ rows[a][by] = rows[b][by] /\ TieBefore(a, b)
        Rank(a) == Cardinality({b \in 1..n : Before(b, a)})
    IN  [p \in 1..n |-> rows[CHOOSE a \in 1..n : Rank(a) = p - 1]]

(* DataFrame.sort_values(by, ascending=False): nargsort with na_position="last" *)
sort_values(rows, by) ==
    LET NotNull(r) == ~IsNaN(r[by])
        Null(r) == IsNaN(r[by])
        non_nans == Reverse(SelectSeq(rows, NotNull))
        nans == SelectSeq(rows, Null)
    IN  Reverse(argsort(non_nans, by)) \o nans

(* iloc[1:n+1]: an off-by-one head *)
head_from_second(rows, n) == SubSeq(rows, 2, IF Len(rows) < n + 1 THEN Len(rows) ELSE n + 1)

head(rows, n) == SubSeq(rows, 1, IF Len(rows) < n THEN Len(rows) ELSE n)

-----------------------------------------------------------------------------
(* Input spreadsheets *)

Row(name, q, w, a, p, prov) ==
    [School_Name |-> name, Quintile |-> q, Total_Wrote |-> w,
     Total_Achieved |-> a, Percent_Achieved |-> p, Province |-> prov]

PercentCells ==
    {NumCell(v) : v \in {0, 40, 49, 50, 59, 60, 69, 70, 74, 75, 79, 80, 89, 90, 100}}

QuintileCells == {NumCell(v) : v \in 1..5} \cup {NACell, StrCell}

WroteCells == {NumCell(0), NumCell(4), NACell}

AchievedCells == {NumCell(0), NumCell(3), NumCell(5), NACell}

(* One-school sheets: every combination of the numeric columns, and the
   sheets whose only row lacks a name, a percentage or a province *)
SingleRows ==
    {Row("S", q, w, a, p, "GP") :
        q \in QuintileCells, w \in WroteCells, a \in AchievedCells, p \in PercentCells}
    \cup {Row(name, NumCell(3), NumCell(4), NumCell(3), p, prov) :
            name \in {"S", NA}, p \in {NumCell(70), NACell, StrCell}, prov \in {"GP", NA}}

(* Rows of the multi-school sheets: tied keys, a missing quintile, a zero
   total_wrote, a row load_data drops, two provinces *)
SmallRows ==
    {Row("S", NumCell(5), NumCell(10), NumCell(10), NumCell(100), "GP"),
     Row("S", NumCell(1), NumCell(10), NumCell(10), NumStrCell(100), "EC"),
     Row("S", NACell, NumCell(10), NumCell(5), NumCell(40), "GP"),
     Row("S", NumCell(2), NumCell(0), NumCell(5), NumCell(40), "EC"),
     Row("S", NumCell(3), NumCell(10), NumCell(5), StrCell, "GP")}

(* Sheets longer than the leaderboards *)
Patterns == {"top", "rising", "mixed"}

PatternRow(pat, i) ==
    IF pat = "top"
    THEN Row("S", NumCell(5), NumCell(10), NumCell(10), NumCell(100), "GP")
    ELSE IF pat = "rising"
    THEN Row("S", NumCell(3), NumCell(50), NumCell(i), NumCell(40 + 2 * i), "GP")
    ELSE Row("S", IF i % 5 = 0 THEN NACell ELSE NumCell(1 + (i % 4)),
             NumCell(10), NumCell(5),
             IF i % 2 = 1 THEN NumCell(100) ELSE NumCell(60), "GP")

Files ==
    UNION {[1..n -> SmallRows] : n \in 0..MaxRows}
    \cup {<<r>> : r \in SingleRows}
    \cup {[i \in 1..n |-> PatternRow(pat, i)] : pat \in Patterns, n \in HeadN..BigRows}

(* Tie orders of the builds considered: the identity is a build whose sort
   happens to be stable *)
TieOrders(n) ==
    {[i \in 1..n |-> i], [i \in 1..n |-> n + 1 - i], [i \in 1..n |-> 1 + (i % n)]}

-----------------------------------------------------------------------------
(* The script *)

NoOutput ==
    [shown |-> FALSE, province |-> {}, df |-> <<>>, filtered |-> <<>>,
     top_projection |-> <<>>, interventions |-> <<>>]

Output ==
    [shown |-> TRUE, province |-> province, df |-> df, filtered |-> filtered,
     top_projection |-> top_projection, interventions |-> interventions]

Init ==
    /\ file \in Files
    /\ tieRank \in TieOrders(Len(file))
    /\ cache = [valid |-> FALSE, value |-> <<>>]
    /\ province = {}
    /\ df = <<>>
    /\ filtered = <<>>
    /\ top_projection = <<>>
    /\ interventions = <<>>
    /\ prev = NoOutput

(* One top-to-bottom execution of app.py with the multiselect holding sel *)
RunScript(sel) ==
    \E loaded \in {load_data(cache, file)} :
    \E scored \in {FeatureEngineering(loaded)} :
    \E shown \in {isin(scored, sel)} :
        /\ cache' = [valid |-> TRUE, value |-> loaded]
        /\ df' = scored
        /\ province' = sel
        /\ filtered' = shown
        /\ top_projection' = head(sort_values(shown, "Projected_Pass_Rate_2026"), HeadN)
        /\ interventions' = head(sort_values(shown, "Intervention_Priority"), HeadN)
        /\ prev' = IF cache.valid THEN Output ELSE NoOutput
        /\ UNCHANGED <<file, tieRank>>

(* First execution: cache miss, the multiselect shows its default (every province) *)
FirstRun ==
    /\ ~cache.valid
    /\ RunScript(ProvinceOptions(load_data(cache, file)))

(* Re-execution caused by a widget other than the province filter *)
Rerun ==
    /\ cache.valid
    /\ RunScript(province)

(* The user changes the province multiselect, which re-executes the script *)
SelectProvince ==
    /\ cache.valid
    /\ \E sel \in SUBSET ProvinceOptions(df) :
          /\ sel # province
          /\ RunScript(sel)

Next == FirstRun \/ Rerun \/ SelectProvince

Spec == Init /\ [][Next]_vars

(* The script run on the one-school sheets only *)
InitRecords == Init /\ file \in {<<r>> : r \in SingleRows}

SpecRecords == InitRecords /\ [][Next]_vars

-----------------------------------------------------------------------------
(* Properties *)

Ran == cache.valid

Idx(rows) == {rows[i].idx : i \in 1..Len(rows)}

(* v <= x, x < v for an integer v, on the rational representation *)
AtLeast(x, v) == x.k = "fin" /\ x.n >= v * x.d

Below(x, v) == x.k = "fin" /\ x.n < v * x.d

MissingRequired(i) ==
    \/ isna(file[i].School_Name)
    \/ file[i].Quintile.t \in {"na", "str"}
    \/ file[i].Percent_Achieved.t \in {"na", "str"}
    \/ isna(file[i].Province)

(* C1: once the script has run, a sheet row that lacks a name, a numeric
   quintile, a numeric percent_achieved or a province is not in the scored
   table (and so carries no Expected_Band, Equity_Gap, Risk_Category or
   Intervention_Priority). *)
C1_MissingRequiredExcluded ==
    Ran => \A i \in 1..Len(file) : MissingRequired(i) => i \notin Idx(df)

(* C2: every scored record with a quintile gets exactly one investment group
   of A, B, C, D: A iff quintile <= 2 and pass rate >= 80; otherwise B iff
   quintile = 3 and pass rate >= 75; otherwise C iff pass rate >= 60;
   otherwise D. *)
C2_InvestmentGroupRules ==
    \A i \in 1..Len(df) :
        LET q == df[i].Quintile
            pr == df[i].Percent_Achieved
            g == investment_group(q, pr)
            ruleA == Below(q, 3) /\ AtLeast(pr, 80)
            ruleB == q = Num(3) /\ AtLeast(pr, 75)
            ruleC == AtLeast(pr, 60)
        IN  ~IsNaN(q) =>
              /\ g \in {"A", "B", "C", "D"}
              /\ g = "A" <=> ruleA
              /\ g = "B" <=> ~ruleA /\ ruleB
              /\ g = "C" <=> ~ruleA /\ ~ruleB /\ ruleC
              /\ g = "D" <=> ~ruleA /\ ~ruleB /\ ~ruleC

(* A scored record that satisfies rule 1 and rule 3 at once and is put in A *)
C2_Witness ==
    /\ Ran
    /\ \E i \in 1..Len(df) :
          /\ Below(df[i].Quintile, 3)
          /\ AtLeast(df[i].Percent_Achieved, 80)
          /\ investment_group(df[i].Quintile, df[i].Percent_Achieved) = "A"

(* C3: a scored record with total_wrote = 0 has efficiency_score exactly 0,
   whatever total_achieved is. *)
C3_ZeroWroteGivesZero ==
    \A i \in 1..Len(df) :
        df[i].Total_Wrote = Num(0) => df[i].Efficiency_Score = Num(0)

NonNegOrMissing(x) == IsNaN(x) \/ AtLeast(x, 0)

(* C4: with total_wrote and total_achieved non-negative integers or missing,
   efficiency_score lies in [0, 1]. *)
C4_EfficiencyInUnitInterval ==
    \A i \in 1..Len(df) :
        NonNegOrMissing(df[i].Total_Wrote) /\ NonNegOrMissing(df[i].Total_Achieved)
            => /\ AtLeast(df[i].Efficiency_Score, 0)
               /\ ~FGt(df[i].Efficiency_Score, Num(1))
               /\ IsFinite(df[i].Efficiency_Score)

(* C5: in every scored record stability_index is within [0, 100] and the
   projected pass rate within [30, 100]. *)
C5_ClampedIndices ==
    \A i \in 1..Len(df) :
        /\ AtLeast(df[i].Stability_Index, 0)
        /\ ~FGt(df[i].Stability_Index, Num(100))
        /\ AtLeast(df[i].Projected_Pass_Rate_2026, 30)
        /\ ~FGt(df[i].Projected_Pass_Rate_2026, Num(100))

(* A record whose efficiency*100 exceeds 100 and whose unclamped projection is
   below 30: both values saturate *)
C5_Witness ==
    \E i \in 1..Len(df) :
        /\ FGt(FMul(df[i].Efficiency_Score, Num(100)), Num(100))
        /\ df[i].Stability_Index = Num(100)
        /\ FLt(ProjectedRaw(df[i]), Num(30))
        /\ df[i].Projected_Pass_Rate_2026 = Num(30)

StableOrder(board, by) ==
    \A i, j \in 1..Len(board) :
        i < j /\ FEq(board[i][by], board[j][by]) => board[i].idx < board[j].idx

(* C6: in both leaderboards two records with equal sort key keep the order
   they have in the input table. *)
C6_StableDescendingSort ==
    /\ StableOrder(top_projection, "Projected_Pass_Rate_2026")
    /\ StableOrder(interventions, "Intervention_Priority")

TopN(board, by) ==
    /\ Len(board) = (IF Len(filtered) < HeadN THEN Len(filtered) ELSE HeadN)
    /\ Idx(board) \subseteq Idx(filtered)
    /\ Cardinality(Idx(board)) = Len(board)
    /\ \A i \in 1..Len(board) :
          \E k \in 1..Len(filtered) : filtered[k] = board[i]
    /\ Len(filtered) <= HeadN => Idx(board) = Idx(filtered)
    /\ \A i, j \in 1..Len(board) : i < j => ~FLt(board[i][by], board[j][by])
    /\ \A k \in 1..Len(filtered) :
          filtered[k].idx \notin Idx(board) =>
              \A i \in 1..Len(board) : ~FGt(filtered[k][by], board[i][by])

(* C8: each leaderboard holds min(20, size) of the filtered records, each
   once, in descending key order, and no record left out has a greater key
   than one kept; with 20 or fewer filtered records it holds them all. *)
C8_TopNSelection ==
    Ran => /\ TopN(top_projection, "Projected_Pass_Rate_2026")
           /\ TopN(interventions, "Intervention_Priority")

(* Fewer than 20 filtered records, not already in descending order *)
C8_Witness ==
    /\ Ran
    /\ Len(filtered) >= 2
    /\ Len(filtered) < HeadN
    /\ FLt(filtered[1].Projected_Pass_Rate_2026, filtered[2].Projected_Pass_Rate_2026)
    /\ Len(top_projection) = Len(filtered)

(* C9: actual_band is decided by percent_achieved alone: >= 90 Excellent,
   else >= 75 Good, else >= 50 Average, else Poor. *)
C9_ActualBandThresholds ==
    /\ \A i \in 1..Len(df) :
          LET pr == df[i].Percent_Achieved
              b == df[i].Actual_Band
          IN  /\ b = "Excellent" <=> AtLeast(pr, 90)
              /\ b = "Good" <=> AtLeast(pr, 75) /\ Below(pr, 90)
              /\ b = "Average" <=> AtLeast(pr, 50) /\ Below(pr, 75)
              /\ b = "Poor" <=> Below(pr, 50)
    /\ \A i, j \in 1..Len(df) :
          df[i].Percent_Achieved = df[j].Percent_Achieved
              => df[i].Actual_Band = df[j].Actual_Band

(* A record exactly on the 75 threshold, banded Good *)
C9_Witness ==
    \E i \in 1..Len(df) :
        df[i].Percent_Achieved = Num(75) /\ df[i].Actual_Band = "Good"

(* C10: risk_category is High Risk iff actual_band is Poor; Excellent or Good
   implies Low Risk; Medium Risk implies Average. *)
C10_RiskBandConsistent ==
    \A i \in 1..Len(df) :
        /\ df[i].Risk_Category = "High Risk" <=> df[i].Actual_Band = "Poor"
        /\ df[i].Actual_Band \in {"Excellent", "Good"} => df[i].Risk_Category = "Low Risk"
        /\ df[i].Risk_Category = "Medium Risk" => df[i].Actual_Band = "Average"

(* A record on the 50 threshold: Medium Risk and Average *)
C10_Witness ==
    \E i \in 1..Len(df) :
        /\ df[i].Percent_Achieved = Num(50)
        /\ df[i].Risk_Category = "Medium Risk"
        /\ df[i].Actual_Band = "Average"

=============================================================================
